---- MODULE Spec2Model ----
(***************************************************************************)
(* Model of the two lookup-table generators of pulse_gen:                  *)
(*   cos_lut_gen_2048.py  (2048-entry cos(2*pi*x) table, signed SQ1.15)    *)
(*   lut_gen.py           (1024-entry exp(-x) table, unsigned UQ0.15)      *)
(*                                                                         *)
(* Real numbers.  A float is modelled as a dyadic rational [m, e] standing *)
(* for m / 2^e.  Every float operation the generators perform on such a    *)
(* value is exact on the values the model uses: a multiplication by        *)
(* SCALE_OUT = 2^15 is an exponent shift, and y * SCALE_OUT + 0.5 needs    *)
(* fewer than 53 significant bits.  The library functions math.cos and     *)
(* math.exp are modelled by an enclosure: the set of dyadic values between *)
(* a lower and an upper bound of the true function value, computed from    *)
(* the Taylor series in 30-bit fixed-point interval arithmetic.  The       *)
(* enclosure is wide enough to hold the float the library returns.         *)
(***************************************************************************)
EXTENDS Integers, Sequences, FiniteSets

\* ------------------------------------------------------------ constants

\* cos_lut_gen_2048.py
N_COS == 2048
FRAC_OUT == 15
SCALE_OUT == 2 ^ FRAC_OUT
\* A mutant: the upper clamp at the nominal full scale 2^15, one too high.
MaxOneTooHigh == 2 ^ FRAC_OUT
MAX_SQ1_15 == 32767
\* A mutant: a clamp symmetric about zero.
MinSymmetric == 1 - (2 ^ FRAC_OUT)
MIN_SQ1_15 == -32768

\* lut_gen.py
N_EXP == 1024
FRAC_IN == 6
\* A mutant: the unsigned full scale 2^15, which sets bit 15.
UqFullScale == 2 ^ FRAC_OUT
MAX_UQ0_15 == 32767

\* q & 0xFFFF
MASK16 == 65535

\* ------------------------------------------------------------ bounds

\* Quantizer inputs y range over the multiples of 2^-InExp, which holds every
\* exact tie of y * SCALE_OUT (the odd multiples of one half).
InExp == FRAC_OUT + 1
\* Quantizer inputs reach MaxOver output steps beyond -1.0 and +1.0.
MaxOver == 3
\* Pairs of quantizer inputs y1 <= y2 are at most MaxGap grid steps apart.
MaxGap == 2
\* Addresses tried on the address mappings reach MapSlack beyond each end.
MapSlack == 2
\* Number of Taylor terms of the enclosures of cos, sin and exp.
Terms == 12

\* ------------------------------------------------------------ dyadic reals

Dy(m, e) == [m |-> m, e |-> e]

\* A mutant: one fractional bit too few, y * 2^14.
TimesHalfScale(y) == Dy(y.m, y.e - FRAC_OUT + 1)

\* y * SCALE_OUT: an exact exponent shift
TimesScale(y) == Dy(y.m, y.e - FRAC_OUT)

\* A mutant: truncation, int(t), instead of floor(t + 0.5).
FloorOnly(t) == t.m \div (2 ^ t.e)

\* math.floor(t + 0.5), for t = m / 2^e with e >= 1
FloorPlusHalf(t) == (t.m + 2 ^ (t.e - 1)) \div (2 ^ t.e)

\* A mutant: round half up, floor(t + 0.5), instead of Python's round().
RoundHalfUp(t) == (t.m + 2 ^ (t.e - 1)) \div (2 ^ t.e)

\* Python 3 round(t) of a float: to the nearest integer, an exact tie to the
\* even neighbour.
py_round(t) ==
    LET d == 2 ^ t.e
        f == t.m \div d
        r == t.m - f * d
    IN  IF 2 * r > d \/ (2 * r = d /\ f % 2 = 1) THEN f + 1 ELSE f

\* ------------------------------------------------------------ quantizers

\* cos_lut_gen_2048.py: q = int(round(y * SCALE_OUT))
sq_raw(y) == py_round(TimesScale(y))

Clamp_sq(q) ==
    LET q1 == IF q > MAX_SQ1_15 THEN MAX_SQ1_15 ELSE q
    IN  IF q1 < MIN_SQ1_15 THEN MIN_SQ1_15 ELSE q1

\* q & 0xFFFF on a Python int: the 16-bit two's complement pattern
And16(q) == q % (MASK16 + 1)

quantize_sq1_15(y) == And16(Clamp_sq(sq_raw(y)))

\* lut_gen.py: q = int(math.floor(y * SCALE_OUT + 0.5))
uq_raw(y) == FloorPlusHalf(TimesScale(y))

\* A mutant: wrapping into 15 bits instead of saturating.
WrapUq(q) == q % (2 ^ FRAC_OUT)

Clamp_uq(q) ==
    LET q1 == IF q < 0 THEN 0 ELSE q
    IN  IF q1 > MAX_UQ0_15 THEN MAX_UQ0_15 ELSE q1

quantize_uq0_15(y) == Clamp_uq(uq_raw(y))

\* ------------------------------------------------------------ enclosures

\* Fixed-point values carry FixBits fractional bits; One stands for 1.0.
FixBits == 2 * FRAC_OUT
One == 2 ^ FixBits

\* a * b / 2^FixBits for 0 <= a, b <= One, by 15-bit halves so that no
\* intermediate exceeds 31 bits; the true product lies in [result, result + 2).
MulFix(a, b) ==
    LET a1 == a \div SCALE_OUT
        a0 == a % SCALE_OUT
        b1 == b \div SCALE_OUT
        b0 == b % SCALE_OUT
    IN  a1 * b1 + ((a1 * b0 + a0 * b1) \div SCALE_OUT)

\* Intervals <<lo, hi>> of fixed-point values, lo <= true value <= hi.
IMul(x, y) == <<MulFix(x[1], y[1]), MulFix(x[2], y[2]) + 2>>
IDiv(x, n) == <<x[1] \div n, (x[2] \div n) + 1>>
IAdd(x, y) == <<x[1] + y[1], x[2] + y[2]>>
ISub(x, y) == <<x[1] - y[2], x[2] - y[1]>>
INeg(x) == <<-x[2], -x[1]>>
IWiden(x, r) == <<x[1] - r, x[2] + r>>

\* The terms z^n / n! of the exponential series for 0 <= z <= 1, summed by
\* n mod 4: s[1] holds n = 0, 4, 8, ..; s[2] holds n = 1, 5, ..; and so on.
\* rem bounds the first omitted term, and so the tail of each alternating
\* series built from the sums.
RECURSIVE SeriesFrom(_, _, _, _)
SeriesFrom(z, n, term, s) ==
    IF n > Terms
    THEN [s |-> s, rem |-> term[2]]
    ELSE LET t == IDiv(IMul(term, z), n)
             k == (n % 4) + 1
         IN  SeriesFrom(z, n + 1, t, [s EXCEPT ![k] = IAdd(s[k], t)])

Series(z) ==
    SeriesFrom(z, 1, <<One, One>>, <<<<One, One>>, <<0, 0>>, <<0, 0>>, <<0, 0>>>>)

\* e^-z = (s1 + s3) - (s2 + s4), cos z = s1 - s3, sin z = s2 - s4
ExpNegFix(z) ==
    LET r == Series(z)
    IN  IWiden(ISub(IAdd(r.s[1], r.s[3]), IAdd(r.s[2], r.s[4])), r.rem)
CosFix(z) == LET r == Series(z) IN IWiden(ISub(r.s[1], r.s[3]), r.rem)
SinFix(z) == LET r == Series(z) IN IWiden(ISub(r.s[2], r.s[4]), r.rem)

RECURSIVE IPow(_, _)
IPow(x, k) == IF k = 0 THEN <<One, One>> ELSE IMul(IPow(x, k - 1), x)

\* math.exp(-x) for x = m / 2^e >= 0: e^-x = (e^-1)^k * e^-z with k the
\* integer part of x and z its fraction.
ExpNegEnclosure(x) ==
    LET d == 2 ^ x.e
        k == x.m \div d
        r == x.m % d
        z == r * (2 ^ (FixBits - x.e))
    IN  IMul(IPow(ExpNegFix(<<One, One>>), k), ExpNegFix(<<z, z>>))

\* math.pi / 4 in fixed point, rounded down
PiQuarter == 843314856

\* The angle (pi / 4) * (s / 256), s in 0..256
Octant(s) ==
    LET lo == (PiQuarter \div 256) * s + (((PiQuarter % 256) * s) \div 256)
    IN  <<lo, lo + 2>>

\* cos(pi * s / 1024) and sin(pi * s / 1024) for s in 0..512
QuarterCos(s) == IF s <= 256 THEN CosFix(Octant(s)) ELSE SinFix(Octant(512 - s))
QuarterSin(s) == IF s <= 256 THEN SinFix(Octant(s)) ELSE CosFix(Octant(512 - s))

\* math.cos(2.0 * math.pi * p) for p = m / 2^11 turns
CosTurnsEnclosure(p) ==
    LET a == p.m % 2048
        q == a \div 512
        s == a % 512
    IN  CASE q = 0 -> QuarterCos(s)
          [] q = 1 -> INeg(QuarterSin(s))
          [] q = 2 -> INeg(QuarterCos(s))
          [] q = 3 -> QuarterSin(s)

\* The floats an enclosure stands for
Floats(iv) == {Dy(m, FixBits) : m \in iv[1]..iv[2]}

\* ------------------------------------------------------------ the generators

VARIABLES
    gen,      \* which script runs: "cos" (cos_lut_gen_2048.py) or "exp" (lut_gen.py)
    pc,       \* position in main()
    addr,     \* the loop variable of the current for loop (the next address)
    vals,     \* the list vals
    lines,    \* the list lines
    file,     \* the contents of out_path, <<>> while nothing is written
    writes,   \* how many times out_path was written
    printed,  \* the hex values of the sanity prints
    fn,       \* function under application: "sq", "uq", "cosmap", "expmap"
    in1, in2, \* its inputs
    out1, out2, \* its results
    done      \* whether it has been applied

progVars == <<gen, pc, addr, vals, lines, file, writes, printed>>
fnVars == <<fn, in1, in2, out1, out2, done>>
vars == <<gen, pc, addr, vals, lines, file, writes, printed, fn, in1, in2, out1, out2, done>>

RECURSIVE Log2(_)
Log2(n) == IF n <= 1 THEN 0 ELSE 1 + Log2(n \div 2)

N(g) == IF g = "cos" THEN N_COS ELSE N_EXP

\* range(n)
range(n) == 0..(n - 1)

\* cos: phase_turns = addr / float(N); exp: x = addr / float(1 << FRAC_IN).
\* Both divide by a power of two and are exact.
phase_turns(a) == Dy(a, Log2(N_COS))
\* A mutant: addr / float(1 << (FRAC_IN + 1))
XRealOneBitMore(a) == Dy(a, FRAC_IN + 1)
x_real(a) == Dy(a, FRAC_IN)

\* y = math.cos(2.0 * math.pi * phase_turns), y = math.exp(-x): the floats the
\* library may return
math_cos_2pi(p) == Floats(CosTurnsEnclosure(p))
math_exp_neg(x) == Floats(ExpNegEnclosure(x))

\* The values the loop body may append for address a
Entry(g, a) ==
    IF g = "cos"
    THEN {quantize_sq1_15(y) : y \in math_cos_2pi(phase_turns(a))}
    ELSE {quantize_uq0_15(y) : y \in math_exp_neg(x_real(a))}

\* f"{q:04X}": upper-case hexadecimal, zero-padded to at least four digits
HexChars == <<"0", "1", "2", "3", "4", "5", "6", "7",
              "8", "9", "A", "B", "C", "D", "E", "F">>
RECURSIVE HexDigits(_)
HexDigits(q) ==
    IF q < 16 THEN <<HexChars[q + 1]>>
    ELSE Append(HexDigits(q \div 16), HexChars[(q % 16) + 1])
RECURSIVE ZeroPad(_, _)
ZeroPad(w, k) == IF Len(w) >= k THEN w ELSE ZeroPad(<<"0">> \o w, k)
Format04X(q) == ZeroPad(HexDigits(q), 4)

\* The lines of the artifact: the text before the cases, one line per case,
\* the default branch and the closing text.
HeaderLine(g) == [kind |-> "header", module |-> g]
\* cos: f"11'd{addr}: y = 16'sh{q16:04X};"  exp: f"10'd{addr}: y = 16'h{q:04X};"
CaseLine(g, a, q) ==
    [kind |-> "case", width |-> Log2(N(g)), addr |-> a,
     signed |-> (g = "cos"), word |-> Format04X(q)]
DefaultLine == [kind |-> "default"]
FooterLine == [kind |-> "footer"]

\* cos: hx(i) = f"0x{vals[i] & 0xFFFF:04X}"; exp: f"0x{vals[i]:04X}"
hx(g, i) == IF g = "cos" THEN Format04X(And16(vals[i + 1])) ELSE Format04X(vals[i + 1])
SanityAddrs(g) ==
    IF g = "cos" THEN <<0, N_COS \div 4, N_COS \div 2, 3 * (N_COS \div 4), N_COS - 1>>
    ELSE <<0, 2 ^ FRAC_IN, N_EXP - 1>>

Init ==
    /\ gen \in {"cos", "exp"}
    /\ pc = "parse"
    /\ addr = 0
    /\ vals = <<>>
    /\ lines = <<>>
    /\ file = <<>>
    /\ writes = 0
    /\ printed = <<>>
    /\ fn = "none" /\ in1 = 0 /\ in2 = 0 /\ out1 = 0 /\ out2 = 0 /\ done = FALSE

\* ap.parse_args(): exits on a bad command line, otherwise main() goes on to
\* vals = [] and the build loop.
ParseArgs ==
    /\ pc = "parse"
    /\ \E ok \in BOOLEAN :
          pc' = IF ok THEN "build" ELSE "exit"
    /\ vals' = <<>>
    /\ addr' = 0
    /\ UNCHANGED <<gen, lines, file, writes, printed>>
    /\ UNCHANGED fnVars

\* A mutant: the loop body also writes the file (write_text indented into the loop).
BuildWriting ==
    /\ pc = "build"
    /\ addr \in range(N(gen))
    /\ \E q \in Entry(gen, addr) : vals' = Append(vals, q)
    /\ addr' = addr + 1
    /\ file' = lines
    /\ writes' = 1
    /\ UNCHANGED <<gen, pc, lines, printed>>
    /\ UNCHANGED fnVars

\* One pass of "for addr in range(N)": map, evaluate, quantize, append.
Build ==
    /\ pc = "build"
    /\ addr \in range(N(gen))
    /\ \E q \in Entry(gen, addr) : vals' = Append(vals, q)
    /\ addr' = addr + 1
    /\ UNCHANGED <<gen, pc, lines, file, writes, printed>>
    /\ UNCHANGED fnVars

\* The loop is exhausted; lines = [] and the text up to "unique case (x)".
EmitHeader ==
    /\ pc = "build"
    /\ addr \notin range(N(gen))
    /\ lines' = <<HeaderLine(gen)>>
    /\ addr' = 0
    /\ pc' = "emit"
    /\ UNCHANGED <<gen, vals, file, writes, printed>>
    /\ UNCHANGED fnVars

\* A mutant: enumerate(vals, 1)
EmitCaseFromOne ==
    /\ pc = "emit"
    /\ addr < Len(vals)
    /\ lines' = Append(lines, CaseLine(gen, addr + 1, vals[addr + 1]))
    /\ addr' = addr + 1
    /\ UNCHANGED <<gen, pc, vals, file, writes, printed>>
    /\ UNCHANGED fnVars

\* One pass of "for addr, q in enumerate(vals)".
EmitCase ==
    /\ pc = "emit"
    /\ addr < Len(vals)
    /\ lines' = Append(lines, CaseLine(gen, addr, vals[addr + 1]))
    /\ addr' = addr + 1
    /\ UNCHANGED <<gen, pc, vals, file, writes, printed>>
    /\ UNCHANGED fnVars

\* enumerate(vals) is exhausted: the default branch and the closing text.
EmitFooter ==
    /\ pc = "emit"
    /\ addr >= Len(vals)
    /\ lines' = lines \o <<DefaultLine, FooterLine>>
    /\ pc' = "write"
    /\ UNCHANGED <<gen, addr, vals, file, writes, printed>>
    /\ UNCHANGED fnVars

\* out_path.write_text("\n".join(lines)); an OSError ends the run.
Write ==
    /\ pc = "write"
    /\ \E ok \in BOOLEAN :
          IF ok
          THEN /\ file' = lines
               /\ writes' = writes + 1
               /\ pc' = "print"
          ELSE /\ pc' = "exit"
               /\ UNCHANGED <<file, writes>>
    /\ UNCHANGED <<gen, addr, vals, lines, printed>>
    /\ UNCHANGED fnVars

\* The sanity prints.
SanityPrints ==
    /\ pc = "print"
    /\ printed' = [i \in 1..Len(SanityAddrs(gen)) |-> hx(gen, SanityAddrs(gen)[i])]
    /\ pc' = "done"
    /\ UNCHANGED <<gen, addr, vals, lines, file, writes>>
    /\ UNCHANGED fnVars

Next == ParseArgs \/ Build \/ EmitHeader \/ EmitCase \/ EmitFooter \/ Write \/ SanityPrints

Spec == Init /\ [][Next]_vars

\* ------------------------------------------------------------ the functions alone

\* Quantizer inputs, as numerators over 2^InExp
HalfSteps == 2 ^ (InExp - FRAC_OUT)
SignedInputs == (-(SCALE_OUT + MaxOver) * HalfSteps)..((SCALE_OUT + MaxOver) * HalfSteps)
UnsignedInputs == (-MaxOver * HalfSteps)..((SCALE_OUT + MaxOver) * HalfSteps)
\* Addresses handed to the address mappings
CosAddrs == (-MapSlack)..(N_COS + MapSlack - 1)
ExpAddrs == (-MapSlack)..(N_EXP + MapSlack - 1)

FnInit ==
    /\ gen = "none" /\ pc = "idle" /\ addr = 0 /\ vals = <<>> /\ lines = <<>>
    /\ file = <<>> /\ writes = 0 /\ printed = <<>>
    /\ done = FALSE /\ out1 = 0 /\ out2 = 0
    /\ \/ /\ fn = "sq"
          /\ in1 \in SignedInputs
          /\ \E g \in 0..MaxGap : in2 = in1 + g
       \/ /\ fn = "uq"
          /\ in1 \in UnsignedInputs
          /\ \E g \in 0..MaxGap : in2 = in1 + g
       \/ /\ fn = "cosmap"
          /\ in1 \in CosAddrs
          /\ in2 = in1
       \/ /\ fn = "expmap"
          /\ in1 \in ExpAddrs
          /\ in2 = in1

SqResult(m) ==
    [raw |-> sq_raw(Dy(m, InExp)), code |-> quantize_sq1_15(Dy(m, InExp))]
UqResult(m) ==
    [raw |-> uq_raw(Dy(m, InExp)), code |-> quantize_uq0_15(Dy(m, InExp))]
\* The loop bodies compute the mapping inline and raise nothing.
MapResult(v) == [tag |-> "value", v |-> v]

ApplySq ==
    /\ fn = "sq" /\ ~done
    /\ out1' = SqResult(in1)
    /\ out2' = SqResult(in2)
    /\ done' = TRUE
    /\ UNCHANGED <<fn, in1, in2>>
    /\ UNCHANGED progVars

ApplyUq ==
    /\ fn = "uq" /\ ~done
    /\ out1' = UqResult(in1)
    /\ out2' = UqResult(in2)
    /\ done' = TRUE
    /\ UNCHANGED <<fn, in1, in2>>
    /\ UNCHANGED progVars

ApplyCosMap ==
    /\ fn = "cosmap" /\ ~done
    /\ out1' = MapResult(phase_turns(in1))
    /\ out2' = MapResult(phase_turns(in2))
    /\ done' = TRUE
    /\ UNCHANGED <<fn, in1, in2>>
    /\ UNCHANGED progVars

ApplyExpMap ==
    /\ fn = "expmap" /\ ~done
    /\ out1' = MapResult(x_real(in1))
    /\ out2' = MapResult(x_real(in2))
    /\ done' = TRUE
    /\ UNCHANGED <<fn, in1, in2>>
    /\ UNCHANGED progVars

FnNext == ApplySq \/ ApplyUq \/ ApplyCosMap \/ ApplyExpMap

\* The functions applied to inputs drawn from the bounded sets
FnSpec == FnInit /\ [][FnNext]_vars

AllNext ==
    \/ ParseArgs \/ Build \/ EmitHeader \/ EmitCase \/ EmitFooter \/ Write
    \/ SanityPrints \/ ApplySq \/ ApplyUq \/ ApplyCosMap \/ ApplyExpMap

\* A run of either generator, or one application of a function
AllSpec == (Init \/ FnInit) /\ [][AllNext]_vars

\* ------------------------------------------------------------ claims

\* Reading the emitted words back
HexDigitValue(ch) == (CHOOSE i \in 1..16 : HexChars[i] = ch) - 1
RECURSIVE ParseHex(_)
ParseHex(w) ==
    IF Len(w) = 0 THEN 0
    ELSE 16 * ParseHex(SubSeq(w, 1, Len(w) - 1)) + HexDigitValue(w[Len(w)])
\* The signed value of a 16-bit two's complement pattern
Signed16(c) == IF c >= 32768 THEN c - 65536 ELSE c

\* The true function values and the entries they give, by address
TrueValue ==
    [g \in {"cos", "exp"} |->
        [a \in range(N(g)) |->
            IF g = "cos" THEN CosTurnsEnclosure(phase_turns(a))
            ELSE ExpNegEnclosure(x_real(a))]]
EntryAt == [g \in {"cos", "exp"} |-> [a \in range(N(g)) |-> Entry(g, a)]]

Abs(n) == IF n < 0 THEN -n ELSE n
\* The case lines of a list of lines
CaseLines(ls) == SelectSeq(ls, LAMBDA l : l.kind = "case")
LoopDone == pc \in {"emit", "write", "print", "done"}

C4_Coverage ==
    (gen \in {"cos", "exp"}) =>
        /\ pc = "build" => Len(vals) = addr
        /\ Len(vals) <= N(gen)
        /\ pc \in {"build", "write", "print", "done"} =>
              \A i \in 1..Len(vals) : vals[i] \in EntryAt[gen][i - 1]
        /\ LoopDone => Len(vals) = N(gen)
        /\ pc = "emit" =>
              /\ Len(lines) = addr + 1
              /\ lines[1].kind = "header"
              /\ addr > 0 =>
                    /\ lines[addr + 1].kind = "case"
                    /\ lines[addr + 1].addr = addr - 1
                    /\ lines[addr + 1].word = Format04X(vals[addr])
        /\ pc \in {"write", "print", "done"} =>
              /\ Len(lines) = N(gen) + 3
              /\ lines[1].kind = "header"
              /\ \A i \in 2..(N(gen) + 1) :
                    /\ lines[i].kind = "case"
                    /\ lines[i].addr = i - 2
                    /\ lines[i].word = Format04X(vals[i - 1])
              /\ lines[N(gen) + 2].kind = "default"
              /\ lines[N(gen) + 3].kind = "footer"
              /\ pc # "write" => file = lines

\* C4 witness: the exponential generator has finished with 1024 entries and
\* 1024 case lines in the written file.
C4_Witness ==
    /\ gen = "exp" /\ pc = "done" /\ Len(vals) = 1024
    /\ Len(CaseLines(file)) = 1024
    /\ CaseLines(file)[1024].addr = 1023

\* C5: every emitted word, decoded (two's complement / 2^15 for the cosine
\* table, code / 2^15 for the exponential table), lies within 1.5 / 2^15 of
\* the true function value at its address, saturated entries included: each
\* case line as it is appended, and every case line of the written file.
C5_RoundTrip ==
    LET Close(l) ==
            LET c == ParseHex(l.word)
                v == IF l.signed THEN Signed16(c) ELSE c
                t == TrueValue[gen][l.addr]
            IN  /\ Abs(v * SCALE_OUT - t[1]) * 2 <= 3 * SCALE_OUT
                /\ Abs(v * SCALE_OUT - t[2]) * 2 <= 3 * SCALE_OUT
    IN  /\ \A i \in 1..Len(file) : file[i].kind = "case" => Close(file[i])
        /\ (pc = "emit" /\ addr > 0) => Close(lines[Len(lines)])

\* C5 witness: the case loop of the exponential generator has emitted the
\* line for address 0, where e^0 = +1.0 saturates, and it reads 7FFF.
C5_Witness ==
    /\ gen = "exp" /\ pc = "emit" /\ addr = 1
    /\ lines[2].kind = "case" /\ lines[2].addr = 0
    /\ lines[2].word = <<"7", "F", "F", "F">>

\* C6: the cosine table holds 0x7FFF at address 0, 0x0000 at address 512,
\* 0x8000 at address 1024 and 0x0000 at address 1536.
C6_CosEntries ==
    (gen = "cos") =>
        /\ Len(vals) > 0 => vals[1] = 32767
        /\ Len(vals) > 512 => vals[513] = 0
        /\ Len(vals) > 1024 => vals[1025] = 32768
        /\ Len(vals) > 1536 => vals[1537] = 0
        /\ pc = "done" =>
              /\ printed[1] = <<"7", "F", "F", "F">>
              /\ printed[2] = <<"0", "0", "0", "0">>
              /\ printed[3] = <<"8", "0", "0", "0">>
              /\ printed[4] = <<"0", "0", "0", "0">>

\* C6 witness: the build loop of the cosine generator has appended the entry
\* for address 1536, after those for 0, 512 and 1024.
C6_Witness ==
    /\ gen = "cos" /\ pc = "build" /\ Len(vals) = 1537
    /\ vals[1] = 32767 /\ vals[513] = 0 /\ vals[1025] = 32768 /\ vals[1537] = 0

\* C7 as stated: the exponential table's entry for address 64 is 0x2F1B.
C7_Entry64Is2F1B ==
    (gen = "exp" /\ Len(vals) > 64) => vals[65] = 12059

\* C7 amended: address 64 maps to real input 1.0, e^-1 is approximately
\* 0.367879, and the emitted code is round(0.367879 * 32768) = 12055 = 0x2F17.
C7_Entry64Is2F17 ==
    (gen = "exp") =>
        /\ Len(vals) > 64 =>
              /\ x_real(64).m = 2 ^ x_real(64).e
              /\ TrueValue["exp"][64][1] > 395006518
              /\ TrueValue["exp"][64][2] < 395007592
              /\ vals[65] = 12055
        /\ pc = "done" => printed[2] = <<"2", "F", "1", "7">>
        /\ \A i \in 1..Len(lines) :
              (lines[i].kind = "case" /\ lines[i].addr = 64) =>
                  lines[i].word = <<"2", "F", "1", "7">>

\* C7 witness: the exponential generator has printed 2F17 for address 64.
C7_Witness ==
    gen = "exp" /\ pc = "done" /\ printed[2] = <<"2", "F", "1", "7">>

C9_NoPartialArtifact ==
    (gen \in {"cos", "exp"}) =>
        /\ writes <= 1
        /\ (writes = 0) = (file = <<>>)
        /\ pc \in {"parse", "build", "emit", "write", "exit"} => writes = 0
        /\ writes = 1 =>
              /\ Len(vals) = N(gen)
              /\ file = lines
              /\ Len(CaseLines(file)) = N(gen)

\* C9 witness: a generator has finished and written its artifact once.
C9_Witness ==
    gen = "exp" /\ pc = "done" /\ writes = 1 /\ Len(CaseLines(file)) = 1024

\* C10: both quantizers are monotone (for y1 <= y2 the code of y1, decoded,
\* is at most the code of y2, decoded), and the exponential table is
\* non-increasing in address.
C10_Monotone ==
    /\ (done /\ fn = "uq" /\ in1 <= in2) => out1.code <= out2.code
    /\ (done /\ fn = "sq" /\ in1 <= in2) =>
          Signed16(out1.code) <= Signed16(out2.code)
    /\ (gen = "exp") =>
          \A i \in 1..(Len(vals) - 1) : vals[i] >= vals[i + 1]

\* C10 witness: -1.5 and -0.5 have been quantized by quantize_sq1_15; the
\* patterns are 0xFFFE and 0x0000, in decoded order -2 < 0.
C10_Witness ==
    /\ done /\ fn = "sq" /\ 2 * in1 = -3 * HalfSteps /\ 2 * in2 = -HalfSteps
    /\ out1.code = 65534 /\ out2.code = 0

====
